---- MODULE Spec2Model ----
(***************************************************************************)
(* TechShop: the checkout-time order commit (orders/views.py checkout),    *)
(* the catalogue and stock rows it reads and locks (store/models.py), the  *)
(* administrator's product_edit (admin_dashboard/views.py) and the fraud   *)
(* module's flag_order_for_review (orders/fraud_detection.py).  Further    *)
(* sections model the staff fulfilment views, the fraud scoring, the       *)
(* session cart views (cart/views.py), delete_customer, and the staff      *)
(* access checks and role switching (admin_dashboard/views.py).            *)
(*                                                                         *)
(* Money is kept in integer cents (a DecimalField with 2 decimal places),  *)
(* percentages in hundredths of a percent.  The database is modelled with  *)
(* READ COMMITTED transactions: a transaction's writes live in its own     *)
(* write set until the atomic block exits, select_for_update takes a row   *)
(* lock that is held until then, and a plain UPDATE waits for that lock.   *)
(***************************************************************************)
EXTENDS Integers, Sequences, FiniteSets, TLC

\* ------------------------------------------------------------------ bounds
MaxStock == 2        \* initial and entered stock quantities range over 0..MaxStock
MaxQty   == 2        \* cart line quantities range over 1..MaxQty
MaxLines == 2        \* number of lines of a session cart
MaxEdits == 1        \* number of product_edit POSTs in one behaviour

SKUS     == {"P1", "P2"}
VIDS     == {"V1"}                       \* ProductVariant ids
SESSIONS == {"s1", "s2"}                 \* one logged-in user per session
REQS     == {"r1", "r2"}                 \* web-server workers running checkout
None     == "None"
PRICES    == {2000, 2500}                \* selling prices an administrator enters
DISCOUNTS == {0, 2500}                   \* discount percentages (x100) entered
ShipFields == {"shipping_address", "shipping_city", "shipping_state", "shipping_zip"}

UserOf(s) == s

\* ------------------------------------------------------------- arithmetic
\* Decimal quantize to the nearest unit of n/d, ties to even (d > 0).
RoundHalfEven(n, d) ==
  LET q == n \div d
      r == n % d
  IN  IF 2 * r < d THEN q
      ELSE IF 2 * r > d THEN q + 1
      ELSE IF q % 2 = 0 THEN q ELSE q + 1

\* ---------------------------------------------------------------- catalog
\* Product.has_offer
HasOffer(p) == p.discount_percentage > 0

\* Product.discounted_price: selling_price - selling_price * pct/100, round 2
DiscountedPrice(p) ==
  IF HasOffer(p)
  THEN RoundHalfEven(p.selling_price * 10000 - p.selling_price * p.discount_percentage, 10000)
  ELSE p.selling_price

\* ProductVariant.variant_price
VariantPrice(v, p) == DiscountedPrice(p) + v.price_adjustment

VARIABLES
  products,    \* [SKUS -> [selling_price, discount_percentage]]   table products
  inventory,   \* [SKUS -> Int]  Inventory.quantity_on_hand, one row per product
  variants,    \* [VIDS -> [product, price_adjustment, stock_quantity]]
  config,      \* SiteConfiguration rows: <<>> or <<record>>
  customers,   \* users that own a WebCustomer row
  orders,      \* Seq of WebOrder rows, id = position
  items,       \* Seq of OrderItem rows
  payments,    \* set of PaymentTransaction rows
  cart,        \* session store: [SESSIONS -> Seq of cart lines]
  pc,          \* [REQS -> position of the worker inside checkout, or its response]
  req,         \* [REQS -> the worker's locals and its open transaction]
  admin,       \* the administrator's product_edit request in flight
  flagged,     \* result of the last flag_order_for_review call
  nEdits,      \* product_edit POSTs so far (bounded by MaxEdits)
  initial,     \* history: the stock and the carts of the initial state
  detector,    \* the FraudDetector evaluations: inputs, position, score, results
  staff        \* users, their StaffProfile rows, role-switch session keys, access results

dbvars  == <<products, inventory, variants, config, customers, orders, items, payments>>
vars    == <<products, inventory, variants, config, customers, orders, items, payments,
             cart, pc, req, admin, flagged, nEdits, initial, detector, staff>>

\* ------------------------------------------------------------------- rows
ProductRow(sku)   == <<"products", sku>>
InventoryRow(sku) == <<"inventory", sku>>
VariantRow(v)     == <<"product_variants", v>>

EmptyFn == [x \in {} |-> 0]
Put(f, k, v) == [x \in DOMAIN f \cup {k} |-> IF x = k THEN v ELSE f[x]]

\* A cart line: session['cart'][key] with key = SKU or "<SKU>-V<variant id>".
IsVariantLine(line) == line.variant_id # None

\* Product.objects.get(SKU=key): a key with a "-V<id>" suffix names no product.
KeyIsSKU(line) == ~IsVariantLine(line)

VariantProduct == [v \in VIDS |-> "P1"]

LineKeys == {<<sku, None>> : sku \in SKUS} \cup {<<VariantProduct[v], v>> : v \in VIDS}
Lines == {[sku |-> k[1], variant_id |-> k[2], quantity |-> q] : k \in LineKeys, q \in 1..MaxQty}
KeyOf(line) == <<line.sku, line.variant_id>>

\* The carts add_to_cart builds: insertion-ordered, one line per key.
Carts ==
  UNION {{c \in [1..n -> Lines] : \A i, j \in 1..n : i # j => KeyOf(c[i]) # KeyOf(c[j])}
         : n \in 0..MaxLines}

Posts == [ShipFields -> {"", "x"}]

\* if not all([shipping_address, shipping_city, shipping_state, shipping_zip])
AllShippingPresent(post) == \A f \in ShipFields : post[f] # ""

\* ------------------------------------------------------- checkout, step 2
\* subtotal += product.discounted_price * quantity; DoesNotExist: continue
SubtotalAdd(subtotal, line, prods) ==
  IF KeyIsSKU(line)
  THEN subtotal + DiscountedPrice(prods[line.sku]) * line.quantity
  ELSE subtotal

\* ------------------------------------------------------- checkout, step 3
\* tax in 1/10000 cent: subtotal * (tax_rate / 100)
TaxRaw(cfg, subtotal) ==
  IF cfg # <<>> /\ cfg[1].tax_enabled THEN subtotal * cfg[1].tax_rate ELSE 0

ShippingThresholdFixed(cfg) == 5000

ShippingThreshold(cfg) == IF cfg # <<>> THEN cfg[1].free_shipping_threshold ELSE 5000
DefaultShipping(cfg)   == IF cfg # <<>> THEN cfg[1].default_shipping_cost ELSE 599

ShippingCost(cfg, subtotal) ==
  IF subtotal < ShippingThreshold(cfg) THEN DefaultShipping(cfg) ELSE 0

\* WebOrder.objects.create(...): the row as the DecimalFields store it
NewOrder(user, post, cfg, subtotal) ==
  [customer      |-> user,
   status        |-> "pending",
   subtotal      |-> subtotal,
   tax_amount    |-> RoundHalfEven(TaxRaw(cfg, subtotal), 10000),
   shipping_cost |-> ShippingCost(cfg, subtotal),
   total_amount  |-> RoundHalfEven(subtotal * 10000 + TaxRaw(cfg, subtotal)
                                   + ShippingCost(cfg, subtotal) * 10000, 10000),
   shipping      |-> post]

\* ------------------------------------------------------- checkout, step 5
\* if inventory.quantity_on_hand < quantity: raise
StockShort(available, quantity) == available < quantity

DeductOne(available, quantity) == available - 1

\* inventory.quantity_on_hand -= quantity
Deduct(available, quantity) == available - quantity

\* OrderItem.objects.create(order, product, quantity, unit_price)
NewItem(product, quantity, unit_price) ==
  [product |-> product, quantity |-> quantity, unit_price |-> unit_price]

\* OrderItem has no field variant_info: Model.__init__ raises TypeError for the
\* keyword, so the variant branch's OrderItem.objects.create always raises.
OrderItemFields == {"order", "product", "quantity", "unit_price"}
CreateRaises(kwargs) == ~(kwargs \subseteq OrderItemFields)

NewPaymentPending(order_id, amount) ==
  [order |-> order_id, transaction_id |-> <<"TXN", order_id>>,
   amount |-> amount, status |-> "pending"]

\* PaymentTransaction.objects.create(order, "TXN-...", amount, 'completed')
NewPayment(order_id, amount) ==
  [order |-> order_id, transaction_id |-> <<"TXN", order_id>>,
   amount |-> amount, status |-> "completed"]

PaymentNeverConflicts(pays, p) == FALSE

\* PaymentTransaction.order is a OneToOneField and transaction_id is unique:
\* an INSERT that breaks either raises IntegrityError.
PaymentConflict(pays, p) ==
  \E x \in pays : x.order = p.order \/ x.transaction_id = p.transaction_id

\* ------------------------------------------------- a worker's transaction
IdleReq ==
  [session |-> None, post |-> [f \in ShipFields |-> ""], cart |-> <<>>, idx |-> 0,
   subtotal |-> 0, read |-> <<>>, product |-> <<>>, order |-> <<>>, items |-> <<>>,
   inv |-> EmptyFn, var |-> EmptyFn, newcustomer |-> {}, locks |-> {}]

\* What the transaction itself sees of a row it may have written.
InvVisible(r, sku) == IF sku \in DOMAIN r.inv THEN r.inv[sku] ELSE inventory[sku]
VarVisible(r, v)   == IF v \in DOMAIN r.var THEN r.var[v] ELSE variants[v].stock_quantity

FreeUnlocked(t, row) == TRUE

\* select_for_update(): the row lock is free, or this transaction holds it.
Free(t, row) == \A u \in REQS \ {t} : row \notin req[u].locks
Unlocked(row) == \A u \in REQS : row \notin req[u].locks

AtomicExitCommits(raised, r) == r

\* with transaction.atomic(): ... except Exception: an exception leaving the
\* block rolls every write of the block back; a normal exit (a return
\* included) commits them.
AtomicExit(raised, r) ==
  IF raised
  THEN [r EXCEPT !.order = <<>>, !.items = <<>>, !.inv = EmptyFn, !.var = EmptyFn,
                 !.newcustomer = {}]
  ELSE r

SessionOnErrorCleared(c) == <<>>

\* except Exception as e: messages.error(...); redirect: the session is not touched
SessionOnError(c) == c

\* del request.session['cart']
SessionCleared(c) == <<>>

\* The commit of write set w (payment row included when an order is written).
Apply(w) ==
  LET id == Len(orders) + 1 IN
  /\ inventory' = [p \in SKUS |-> IF p \in DOMAIN w.inv THEN w.inv[p] ELSE inventory[p]]
  /\ variants'  = [v \in VIDS |-> IF v \in DOMAIN w.var
                                  THEN [variants[v] EXCEPT !.stock_quantity = w.var[v]]
                                  ELSE variants[v]]
  /\ customers' = customers \cup w.newcustomer
  /\ orders'    = IF w.order = <<>> THEN orders
                  ELSE Append(orders, [id |-> id] @@ w.order[1])
  /\ items'     = items \o [i \in 1..Len(w.items) |-> [order |-> id] @@ w.items[i]]
  /\ payments'  = IF w.order = <<>> THEN payments
                  ELSE payments \cup {NewPayment(id, w.order[1].total_amount)}

\* The response: the atomic block exits, the session is saved, the worker is free.
Exit(t, r, raised, message) ==
  /\ Apply(AtomicExit(raised, r))
  /\ cart' = [cart EXCEPT ![r.session] =
                IF raised THEN SessionOnError(@)
                ELSE IF r.order # <<>> THEN SessionCleared(@) ELSE @]
  /\ pc' = [pc EXCEPT ![t] = message]
  /\ req' = [req EXCEPT ![t] = [IdleReq EXCEPT !.session = r.session]]
  /\ UNCHANGED <<products, config, admin, flagged, nEdits, initial, detector, staff>>

Step(t, r, next) ==
  /\ pc' = [pc EXCEPT ![t] = next]
  /\ req' = [req EXCEPT ![t] = r]
  /\ UNCHANGED <<dbvars, cart, admin, flagged, nEdits, initial, detector, staff>>

OrderItemUnitPriceLive(item, prods) == DiscountedPrice(prods[item.product])

\* OrderItem.unit_price: a stored column of the order_items row
OrderItemUnitPrice(item, prods) == item.unit_price

\* ------------------------------------------------------ checkout(request)
\* cart = request.session.get('cart', {}); if not cart: redirect
CheckoutEmptyCart(t, s) ==
  /\ pc[t] = "idle"
  /\ cart[s] = <<>>
  /\ pc' = [pc EXCEPT ![t] = "empty"]
  /\ req' = [req EXCEPT ![t] = [IdleReq EXCEPT !.session = s]]
  /\ UNCHANGED <<dbvars, cart, admin, flagged, nEdits, initial, detector, staff>>

Entered(s, post) ==
  [IdleReq EXCEPT !.session = s, !.post = post, !.cart = cart[s], !.idx = 1,
                  !.newcustomer = {UserOf(s)} \ customers]

\* POST, get_or_create(customer), a shipping field missing: return render(...)
\* from inside the atomic block
CheckoutInvalid(t, s, post) ==
  /\ pc[t] = "idle"
  /\ cart[s] # <<>>
  /\ ~AllShippingPresent(post)
  /\ Exit(t, Entered(s, post), FALSE, "invalid")

CheckoutBegin(t, s, post) ==
  /\ pc[t] = "idle"
  /\ cart[s] # <<>>
  /\ AllShippingPresent(post)
  /\ Step(t, Entered(s, post), "subtotal")

\* The discounted_price the subtotal loop read for a line (none for a key that
\* names no product); kept per line for reference, the code keeps only the sum.
PriceRead(line, prods) ==
  IF KeyIsSKU(line) THEN <<DiscountedPrice(prods[line.sku])>> ELSE <<>>

\* for sku, item_data in cart.items(): one Product.objects.get per line
SubtotalLine(t) ==
  LET r == req[t] IN
  /\ pc[t] = "subtotal"
  /\ Step(t, [r EXCEPT !.subtotal = SubtotalAdd(@, r.cart[r.idx], products),
                       !.read = Append(@, PriceRead(r.cart[r.idx], products)),
                       !.idx = IF r.idx = Len(r.cart) THEN 1 ELSE @ + 1],
          IF r.idx = Len(r.cart) THEN "create" ELSE "subtotal")

\* config = SiteConfiguration.objects.first(); ...; WebOrder.objects.create(...)
CreateOrder(t) ==
  LET r == req[t] IN
  /\ pc[t] = "create"
  /\ Step(t, [r EXCEPT !.order = <<NewOrder(UserOf(r.session), r.post, config, r.subtotal)>>],
          "line")

\* product = Product.objects.select_for_update().get(SKU=sku)
LockProduct(t) ==
  LET r == req[t]
      line == r.cart[r.idx] IN
  /\ pc[t] = "line"
  /\ ~IsVariantLine(line)
  /\ Free(t, ProductRow(line.sku))
  /\ Step(t, [r EXCEPT !.locks = @ \cup {ProductRow(line.sku)},
                       !.product = <<products[line.sku]>>],
          "inventory")

AfterLine(r) == IF r.idx = Len(r.cart) THEN "payment" ELSE "line"

\* inventory = Inventory.objects.select_for_update().get(product=product);
\* stock check, deduction, OrderItem.objects.create
ProcessLine(t) ==
  LET r == req[t]
      line == r.cart[r.idx]
      held == [r EXCEPT !.locks = @ \cup {InventoryRow(line.sku)}]
      available == InvVisible(r, line.sku) IN
  /\ pc[t] = "inventory"
  /\ Free(t, InventoryRow(line.sku))
  /\ IF StockShort(available, line.quantity)
     THEN Exit(t, held, TRUE, "stock")
     ELSE Step(t, [held EXCEPT
                     !.inv = Put(@, line.sku, Deduct(available, line.quantity)),
                     !.items = Append(@, NewItem(line.sku, line.quantity,
                                                 DiscountedPrice(r.product[1]))),
                     !.idx = @ + 1],
               AfterLine(r))

\* variant = ProductVariant.objects.select_for_update().get(id=variant_id);
\* stock check, variant.stock_quantity -= quantity
LockVariant(t) ==
  LET r == req[t]
      line == r.cart[r.idx]
      v == line.variant_id
      held == [r EXCEPT !.locks = @ \cup {VariantRow(v)}]
      available == VarVisible(r, v) IN
  /\ pc[t] = "line"
  /\ IsVariantLine(line)
  /\ Free(t, VariantRow(v))
  /\ IF StockShort(available, line.quantity)
     THEN Exit(t, held, TRUE, "stock")
     ELSE Step(t, [held EXCEPT !.var = Put(@, v, Deduct(available, line.quantity))],
               "variantInventory")

\* inventory = Inventory.objects.select_for_update().get(product=variant.product);
\* deduction without a check; OrderItem.objects.create(..., variant_info=...)
ProcessVariantLine(t) ==
  LET r == req[t]
      line == r.cart[r.idx]
      v == line.variant_id
      p == variants[v].product
      held == [r EXCEPT !.locks = @ \cup {InventoryRow(p)},
                        !.inv = Put(@, p, Deduct(InvVisible(r, p), line.quantity))] IN
  /\ pc[t] = "variantInventory"
  /\ Free(t, InventoryRow(p))
  /\ IF CreateRaises(OrderItemFields \cup {"variant_info"})
     THEN Exit(t, held, TRUE, "error")
     ELSE Step(t, [held EXCEPT
                     !.items = Append(@, NewItem(p, line.quantity,
                                                 VariantPrice(variants[v], products[p]))),
                     !.idx = @ + 1],
               AfterLine(r))

\* PaymentTransaction.objects.create; del request.session['cart']; return redirect
Commit(t) ==
  /\ pc[t] = "payment"
  /\ Exit(t, req[t], FALSE, "ok")

\* The messages a response carries: 'Your cart is empty', 'Please fill in all
\* shipping information', 'Order ... placed successfully!', 'Error processing
\* order: ... out of stock! ...', 'Error processing order: ...'
Responses == {"empty", "invalid", "ok", "stock", "error"}

\* The response is sent; the worker takes the next request.
Respond(t) ==
  /\ pc[t] \in Responses
  /\ pc' = [pc EXCEPT ![t] = "idle"]
  /\ req' = [req EXCEPT ![t] = IdleReq]
  /\ UNCHANGED <<dbvars, cart, admin, flagged, nEdits, initial, detector, staff>>

\* ------------------------------------------------ the database's deadlocks
\* The row a worker's next statement has to lock.
Needs(t) ==
  LET r == req[t]
      line == r.cart[r.idx] IN
  CASE pc[t] = "line" /\ ~IsVariantLine(line) -> {ProductRow(line.sku)}
    [] pc[t] = "line" /\ IsVariantLine(line)  -> {VariantRow(line.variant_id)}
    [] pc[t] = "inventory"                    -> {InventoryRow(line.sku)}
    [] pc[t] = "variantInventory" -> {InventoryRow(variants[line.variant_id].product)}
    [] OTHER                                  -> {}

WaitsFor(t, u) == t # u /\ Needs(t) \cap req[u].locks # {}

RECURSIVE Reaches(_, _, _)
Reaches(t, u, n) ==
  \/ WaitsFor(t, u)
  \/ n > 0 /\ \E w \in REQS : WaitsFor(t, w) /\ Reaches(w, u, n - 1)

\* t waits, directly or through others, for a lock held by a worker waiting for t
InCycle(t) == \E u \in REQS \ {t} : Reaches(t, u, Cardinality(REQS)) /\ Reaches(u, t, Cardinality(REQS))

\* The database's deadlock detector ends one waiting statement with an error,
\* which leaves the atomic block as an exception.
DeadlockAbort(t) ==
  /\ InCycle(t)
  /\ Exit(t, req[t], TRUE, "error")

\* ------------------------------------------------- product_edit(request)
AdminIdle == [pc |-> "idle", sku |-> None]

\* product = get_object_or_404(Product); inventory = get_or_create(product)
ProductEditLoad(sku) ==
  /\ admin.pc = "idle"
  /\ nEdits < MaxEdits
  /\ admin' = [pc |-> "loaded", sku |-> sku]
  /\ nEdits' = nEdits + 1
  /\ UNCHANGED <<dbvars, cart, pc, req, flagged, initial, detector, staff>>

\* product.selling_price = ...; product.discount_percentage = ...; product.save()
EditedProduct(p, price, discount) ==
  [p EXCEPT !.selling_price = price, !.discount_percentage = discount]

ProductEditSaveProduct(price, discount) ==
  /\ admin.pc = "loaded"
  /\ Unlocked(ProductRow(admin.sku))
  /\ products' = [products EXCEPT ![admin.sku] = EditedProduct(@, price, discount)]
  /\ admin' = [admin EXCEPT !.pc = "saved"]
  /\ UNCHANGED <<inventory, variants, config, customers, orders, items, payments,
                 cart, pc, req, flagged, nEdits, initial, detector, staff>>

\* inventory.quantity_on_hand = int(POST['quantity_on_hand']); inventory.save()
ProductEditSaveInventory(quantity) ==
  /\ admin.pc = "saved"
  /\ Unlocked(InventoryRow(admin.sku))
  /\ inventory' = [inventory EXCEPT ![admin.sku] = quantity]
  /\ admin' = AdminIdle
  /\ UNCHANGED <<products, variants, config, customers, orders, items, payments,
                 cart, pc, req, flagged, nEdits, initial, detector, staff>>

\* ------------------------------- FraudDetector.flag_order_for_review(order)
FlagPayment(o) ==
  [order |-> o.id, transaction_id |-> <<"FRAUD", o.id>>,
   amount |-> o.total_amount, status |-> "flagged"]

\* PaymentTransaction.objects.create(...) under the table's unique constraints
InsertPayment(pays, p) == IF PaymentConflict(pays, p) THEN pays ELSE pays \cup {p}

NotFlagging == [order |-> 0, result |-> "none"]

\* order.status = 'pending'; order.save(); PaymentTransaction.objects.create(...)
\* The order row is saved before the INSERT, outside any atomic block.
FlagOrderForReview(i) ==
  /\ i \in 1..Len(orders)
  /\ orders' = [orders EXCEPT ![i].status = "pending"]
  /\ payments' = InsertPayment(payments, FlagPayment(orders[i]))
  /\ flagged' = [order |-> i,
                 result |-> IF PaymentConflict(payments, FlagPayment(orders[i]))
                            THEN "IntegrityError" ELSE "created"]
  /\ UNCHANGED <<products, inventory, variants, config, customers, items,
                 cart, pc, req, admin, nEdits, initial, detector, staff>>

\* ------------------------------------------------------------------- Init
InitialProducts ==
  [sku \in SKUS |-> [selling_price |-> IF sku = "P1" THEN 2500 ELSE 2000,
                     discount_percentage |-> 0]]

Configs ==
  {<<>>,
   <<[tax_enabled |-> TRUE, tax_rate |-> 800,
      free_shipping_threshold |-> 5000, default_shipping_cost |-> 599]>>}

Variants(stock) ==
  [v \in VIDS |-> [product |-> VariantProduct[v], price_adjustment |-> 100,
                   stock_quantity |-> stock[v]]]

\* No fraud evaluation is asked for.
NoDetector ==
  [pc |-> "done", run |-> 0, customer |-> None, inputs |-> <<>>,
   risk_score |-> 0, red_flags |-> <<>>, verdict |-> <<>>, out |-> <<>>]

\* Two users; u1 sends the staff requests. StaffProfile.ROLE_CHOICES in part.
USERS == {"u1", "u2"}
ROLES == {"super_admin", "manager", "viewer"}

\* A StaffProfile row as the staff form creates it: not switched.
Profiles ==
  [role : ROLES, is_active : BOOLEAN, is_switched : {FALSE}, original_role : {""}]

\* Nobody has a staff profile, nobody is logged in.
NoStaff ==
  [users    |-> [u \in USERS |-> [is_authenticated |-> FALSE, is_superuser |-> FALSE]],
   profiles |-> [u \in USERS |-> <<>>],
   session  |-> [u \in USERS |-> <<>>],
   access   |-> [is_admin_user |-> "unasked", is_super_admin |-> "unasked"]]

Fresh ==
  /\ products = InitialProducts
  /\ customers = {}
  /\ orders = <<>>
  /\ items = <<>>
  /\ payments = {}
  /\ pc = [t \in REQS |-> "idle"]
  /\ req = [t \in REQS |-> IdleReq]
  /\ admin = AdminIdle
  /\ flagged = NotFlagging
  /\ nEdits = 0
  /\ initial = [inventory |-> inventory, cart |-> cart]
  /\ detector = NoDetector
  /\ staff = NoStaff

\* One customer with any cart, any stock, with and without a site configuration.
Init ==
  /\ inventory \in [SKUS -> 0..MaxStock]
  /\ \E stock \in [VIDS -> 0..MaxStock] : variants = Variants(stock)
  /\ config \in Configs
  /\ \E c \in Carts : cart = [s \in SESSIONS |-> IF s = "s1" THEN c ELSE <<>>]
  /\ Fresh

\* The carts whose lines all ask for the same quantity q.
CartsOf(q) == {c \in Carts : \A i \in 1..Len(c) : c[i].quantity = q}

\* Two customers, every stock counter at the same level, every line of both
\* carts a product line asking for the same quantity.
InitConc ==
  /\ \E level \in 0..MaxStock :
       /\ inventory = [sku \in SKUS |-> level]
       /\ variants = Variants([v \in VIDS |-> level])
  /\ config = <<>>
  /\ \E q \in 1..MaxQty :
       cart \in [SESSIONS -> {c \in CartsOf(q) : \A i \in 1..Len(c) : ~IsVariantLine(c[i])}]
  /\ Fresh

\* One customer and the administrator.
InitEdit ==
  /\ inventory = [sku \in SKUS |-> MaxStock]
  /\ variants = Variants([v \in VIDS |-> MaxStock])
  /\ config = <<>>
  /\ \E q \in 1..MaxQty : \E c \in CartsOf(q) :
       cart = [s \in SESSIONS |-> IF s = "s1" THEN c ELSE <<>>]
  /\ Fresh

\* ------------------------------------------------------------------- Next
CheckoutStep(t) ==
  \/ \E s \in SESSIONS : CheckoutEmptyCart(t, s)
  \/ \E s \in SESSIONS, post \in Posts : CheckoutInvalid(t, s, post)
  \/ \E s \in SESSIONS, post \in Posts : CheckoutBegin(t, s, post)
  \/ SubtotalLine(t)
  \/ CreateOrder(t)
  \/ LockProduct(t)
  \/ ProcessLine(t)
  \/ LockVariant(t)
  \/ ProcessVariantLine(t)
  \/ Commit(t)
  \/ Respond(t)

AdminStep ==
  \/ \E sku \in SKUS : ProductEditLoad(sku)
  \/ \E price \in PRICES, discount \in DISCOUNTS : ProductEditSaveProduct(price, discount)
  \/ \E quantity \in 0..MaxStock : ProductEditSaveInventory(quantity)

\* One worker serves the requests one at a time; flag_order_for_review is
\* called on the orders there are.
NextSerial ==
  \/ \E t \in {"r1"} : CheckoutStep(t)
  \/ \E i \in 1..Len(orders) : FlagOrderForReview(i)

\* Two concurrent checkout POSTs of product lines, one per worker; each worker
\* keeps the response it produced.
ConcStep(t) ==
  \/ \E s \in SESSIONS : CheckoutEmptyCart(t, s)
  \/ \E s \in SESSIONS, post \in Posts : CheckoutBegin(t, s, post)
  \/ SubtotalLine(t)
  \/ CreateOrder(t)
  \/ LockProduct(t)
  \/ ProcessLine(t)
  \/ Commit(t)
  \/ DeadlockAbort(t)

NextConc == \E t \in REQS : ConcStep(t)

\* One worker serves checkouts while the administrator edits products.
NextEdit ==
  \/ \E t \in {"r1"} : CheckoutStep(t)
  \/ AdminStep

Spec == Init /\ [][NextSerial]_vars

SpecConc == InitConc /\ [][NextConc]_vars

SpecEdit == InitEdit /\ [][NextEdit]_vars

\* ================================================ order fulfilment (staff)
MaxShort == 2        \* ship_order is followed while no quantity falls below -MaxShort

\* WebOrder.ORDER_STATUS_CHOICES
ORDER_STATUS_CHOICES ==
  {"pending", "confirmed", "processing", "shipped", "delivered", "cancelled"}

\* No checkout transaction is open: the staff requests below are served
\* between checkout requests.
Quiescent == \A t \in REQS : pc[t] \in {"idle"} \cup Responses

SavedStatusRepriced(o, status) == [o EXCEPT !.status = status, !.total_amount = o.subtotal]

\* order.status = ...; order.save(): the row is written back with the values
\* it was loaded with, except the status
SavedStatus(o, status) == [o EXCEPT !.status = status]

\* order_detail POST: if new_status: order.status = new_status; order.save()
OrderDetailStatus(i, new_status) ==
  /\ Quiescent
  /\ i \in 1..Len(orders)
  /\ orders' = [orders EXCEPT ![i] = SavedStatus(@, new_status)]
  /\ UNCHANGED <<products, inventory, variants, config, customers, items, payments,
                 cart, pc, req, admin, flagged, nEdits, initial, detector, staff>>

\* start_picking: if order.status == 'pending': 'processing'
StartPicking(i) ==
  /\ Quiescent
  /\ i \in 1..Len(orders)
  /\ orders' = [orders EXCEPT ![i] =
                  IF @.status = "pending" THEN SavedStatus(@, "processing") ELSE @]
  /\ UNCHANGED <<products, inventory, variants, config, customers, items, payments,
                 cart, pc, req, admin, flagged, nEdits, initial, detector, staff>>

\* mark_ready_to_ship: if order.status == 'processing': 'confirmed'
MarkReadyToShip(i) ==
  /\ Quiescent
  /\ i \in 1..Len(orders)
  /\ orders' = [orders EXCEPT ![i] =
                  IF @.status = "processing" THEN SavedStatus(@, "confirmed") ELSE @]
  /\ UNCHANGED <<products, inventory, variants, config, customers, items, payments,
                 cart, pc, req, admin, flagged, nEdits, initial, detector, staff>>

\* order.status = 'shipped'; order.shipped_at = timezone.now(); order.save()
\* (order.tracking_number is not a field of WebOrder and is not stored)
ShippedRow(o) ==
  [f \in DOMAIN o \cup {"shipped_at"} |->
     IF f = "shipped_at" THEN "now" ELSE SavedStatus(o, "shipped")[f]]

\* for item in order.items.all(): item.product.inventory.quantity_on_hand -=
\* item.quantity; item.product.inventory.save()
RECURSIVE ShipDeduct(_, _, _)
ShipDeduct(inv, its, id) ==
  IF its = <<>> THEN inv
  ELSE LET item == Head(its) IN
       ShipDeduct(IF item.order = id
                  THEN [inv EXCEPT ![item.product] = @ - item.quantity]
                  ELSE inv,
                  Tail(its), id)

\* ship_order POST: no test of the order's status, none of the quantity left
ShipOrder(i) ==
  /\ Quiescent
  /\ i \in 1..Len(orders)
  /\ \A p \in SKUS : ShipDeduct(inventory, items, i)[p] >= -MaxShort
  /\ orders' = [orders EXCEPT ![i] = ShippedRow(@)]
  /\ inventory' = ShipDeduct(inventory, items, i)
  /\ UNCHANGED <<products, variants, config, customers, items, payments,
                 cart, pc, req, admin, flagged, nEdits, initial, detector, staff>>

\* receive_purchase_order POST, one purchase order item of product sku:
\* if qty_received > 0: inventory.quantity_on_hand += qty_received
ReceivePurchaseOrder(sku, qty_received) ==
  /\ Quiescent
  /\ qty_received > 0
  /\ inventory[sku] + qty_received <= MaxStock
  /\ inventory' = [inventory EXCEPT ![sku] = @ + qty_received]
  /\ UNCHANGED <<products, variants, config, customers, orders, items, payments,
                 cart, pc, req, admin, flagged, nEdits, initial, detector, staff>>

\* cycle_count POST: if counted_qty - system_qty != 0: quantity_on_hand = counted_qty
CycleCount(sku, counted_qty) ==
  /\ Quiescent
  /\ counted_qty - inventory[sku] # 0
  /\ inventory' = [inventory EXCEPT ![sku] = counted_qty]
  /\ UNCHANGED <<products, variants, config, customers, orders, items, payments,
                 cart, pc, req, admin, flagged, nEdits, initial, detector, staff>>

\* One customer with a cart of product lines, full shelves.
InitFulfil ==
  /\ inventory = [sku \in SKUS |-> MaxStock]
  /\ variants = Variants([v \in VIDS |-> MaxStock])
  /\ config \in Configs
  /\ \E q \in 1..MaxQty : \E c \in CartsOf(q) :
       /\ \A i \in 1..Len(c) : ~IsVariantLine(c[i])
       /\ cart = [s \in SESSIONS |-> IF s = "s1" THEN c ELSE <<>>]
  /\ Fresh

\* checkout of a cart of product lines with complete shipping fields
ProductCheckoutStep(t) ==
  \/ \E s \in SESSIONS : CheckoutEmptyCart(t, s)
  \/ \E s \in SESSIONS, post \in Posts : CheckoutBegin(t, s, post)
  \/ SubtotalLine(t)
  \/ CreateOrder(t)
  \/ LockProduct(t)
  \/ ProcessLine(t)
  \/ Commit(t)
  \/ Respond(t)

FulfilStep ==
  \/ \E i \in 1..Len(orders), st \in ORDER_STATUS_CHOICES : OrderDetailStatus(i, st)
  \/ \E i \in 1..Len(orders) : StartPicking(i)
  \/ \E i \in 1..Len(orders) : MarkReadyToShip(i)
  \/ \E i \in 1..Len(orders) : ShipOrder(i)
  \/ \E i \in 1..Len(orders) : Quiescent /\ FlagOrderForReview(i)
  \/ \E sku \in SKUS, qty \in 1..MaxStock : ReceivePurchaseOrder(sku, qty)
  \/ \E sku \in SKUS, qty \in 0..MaxStock : CycleCount(sku, qty)

\* One worker serves checkouts; the staff work on the orders and the stock.
NextFulfil ==
  \/ \E t \in {"r1"} : ProductCheckoutStep(t)
  \/ FulfilStep

SpecFulfil == InitFulfil /\ [][NextFulfil]_vars

\* ======================================================== checkout totals
\* SiteConfiguration.tax_rate values (x100) an administrator may have saved
TAX_RATES == {800, 1250}

\* free_shipping_threshold and default_shipping_cost values (cents) likewise
SHIPPING_THRESHOLDS == {3000, 5000}
SHIPPING_COSTS == {599, 799}

\* No SiteConfiguration row, or one with tax on or off at one of the rates.
TotalsConfigs ==
  {<<>>} \cup
  {<<[tax_enabled |-> e, tax_rate |-> r,
      free_shipping_threshold |-> th, default_shipping_cost |-> c]>>
   : e \in BOOLEAN, r \in TAX_RATES, th \in SHIPPING_THRESHOLDS, c \in SHIPPING_COSTS}

\* One customer with any cart of product lines, full shelves, any configuration.
InitTotals ==
  /\ inventory = [sku \in SKUS |-> MaxStock]
  /\ variants = Variants([v \in VIDS |-> MaxStock])
  /\ config \in TotalsConfigs
  /\ \E c \in Carts :
       /\ \A i \in 1..Len(c) : ~IsVariantLine(c[i])
       /\ cart = [s \in SESSIONS |-> IF s = "s1" THEN c ELSE <<>>]
  /\ Fresh

NextTotals == \E t \in {"r1"} : ProductCheckoutStep(t)

SpecTotals == InitTotals /\ [][NextTotals]_vars

\* ================================================= session cart (cart/views)
MaxBelow == 1        \* add_to_cart is followed while no line falls below -MaxBelow

\* int(request.POST.get('quantity', 1)): the quantities a form can post
POST_QUANTITIES == (0 - 1)..(MaxStock + 1)

\* Variant picked by variant_id, or matched by size and colour; None: no variant
Selections == {None} \cup VIDS

CartResponses == {"added", "limited", "unavailable", "out_of_stock",
                  "updated", "removed", "not_found", "shown"}

\* cart.get(cart_key, {}).get('quantity', 0)
CartQuantity(c, key) ==
  IF \E i \in 1..Len(c) : KeyOf(c[i]) = key
  THEN c[CHOOSE i \in 1..Len(c) : KeyOf(c[i]) = key].quantity
  ELSE 0

\* cart[cart_key]['quantity'] = q, or cart[cart_key] = {'quantity': q, ...}
CartPut(c, key, q) ==
  IF \E i \in 1..Len(c) : KeyOf(c[i]) = key
  THEN [i \in 1..Len(c) |-> IF KeyOf(c[i]) = key THEN [c[i] EXCEPT !.quantity = q] ELSE c[i]]
  ELSE Append(c, [sku |-> key[1], variant_id |-> key[2], quantity |-> q])

\* del cart[sku]
CartDelete(c, key) == SelectSeq(c, LAMBDA l : KeyOf(l) # key)

\* variant.stock_quantity, or product.stock_quantity (the Inventory row)
AvailableStock(sku, v) ==
  IF v # None THEN variants[v].stock_quantity ELSE inventory[sku]

AddQuantityAsPosted(current_qty, quantity, available_stock) == quantity

\* if current_qty + quantity > available_stock:
\*     quantity = max(0, available_stock - current_qty)
AddQuantity(current_qty, quantity, available_stock) ==
  IF current_qty + quantity > available_stock
  THEN IF available_stock - current_qty > 0 THEN available_stock - current_qty ELSE 0
  ELSE quantity

\* The view stores cart c in the session and answers; r is what the request
\* read and was posted (kept for add_to_cart).
CartRespond(t, s, c, message, r) ==
  /\ pc[t] = "idle"
  /\ cart' = [cart EXCEPT ![s] = c]
  /\ pc' = [pc EXCEPT ![t] = message]
  /\ req' = [req EXCEPT ![t] = r]
  /\ UNCHANGED <<dbvars, admin, flagged, nEdits, initial, detector, staff>>

\* add_to_cart's request: the session cart it read, the sku of the URL and
\* the posted variant and quantity
AddRequest(s, sku, v, quantity) ==
  [IdleReq EXCEPT !.session = s, !.cart = cart[s],
                  !.post = [sku |-> sku, variant_id |-> v, quantity |-> quantity]]

\* add_to_cart(request, sku) with POST variant (v) and quantity
AddToCart(t, s, sku, v, quantity) ==
  LET available_stock == AvailableStock(sku, v)
      cart_key    == <<sku, v>>
      current_qty == CartQuantity(cart[s], cart_key)
      limited     == current_qty + quantity > available_stock
      added       == AddQuantity(current_qty, quantity, available_stock)
  IN  /\ v # None => variants[v].product = sku
      /\ current_qty + added >= 0 - MaxBelow
      /\ IF available_stock <= 0
         THEN CartRespond(t, s, cart[s], "out_of_stock", AddRequest(s, sku, v, quantity))
         ELSE IF limited /\ added = 0
         THEN CartRespond(t, s, cart[s], "unavailable", AddRequest(s, sku, v, quantity))
         ELSE CartRespond(t, s, CartPut(cart[s], cart_key, current_qty + added),
                          IF limited THEN "limited" ELSE "added",
                          AddRequest(s, sku, v, quantity))

\* remove_from_cart(request, sku)
RemoveFromCart(t, s, key) ==
  IF \E i \in 1..Len(cart[s]) : KeyOf(cart[s][i]) = key
  THEN CartRespond(t, s, CartDelete(cart[s], key), "removed", IdleReq)
  ELSE CartRespond(t, s, cart[s], "not_found", IdleReq)

\* update_cart_item(request, sku) with POST quantity
UpdateCartItem(t, s, key, quantity) ==
  IF \E i \in 1..Len(cart[s]) : KeyOf(cart[s][i]) = key
  THEN IF quantity <= 0
       THEN CartRespond(t, s, CartDelete(cart[s], key), "removed", IdleReq)
       ELSE CartRespond(t, s, CartPut(cart[s], key, quantity), "updated", IdleReq)
  ELSE CartRespond(t, s, cart[s], "not_found", IdleReq)

\* cart_view: a product line asking for more than the stock is cut to the
\* stock when there is some; a key that names no product is skipped
CartViewLine(line) ==
  IF KeyIsSKU(line) /\ inventory[line.sku] < line.quantity /\ inventory[line.sku] > 0
  THEN [line EXCEPT !.quantity = inventory[line.sku]]
  ELSE line

CartView(t, s) ==
  /\ pc[t] = "idle"
  /\ CartRespond(t, s, [i \in 1..Len(cart[s]) |-> CartViewLine(cart[s][i])], "shown", IdleReq)

\* The redirect or page is sent; the worker takes the next request.
CartDone(t) ==
  /\ pc[t] \in CartResponses
  /\ pc' = [pc EXCEPT ![t] = "idle"]
  /\ req' = [req EXCEPT ![t] = IdleReq]
  /\ UNCHANGED <<dbvars, cart, admin, flagged, nEdits, initial, detector, staff>>

\* One shopper with an empty cart; any stock of P1 and of its variant.
InitCart ==
  /\ \E level \in 0..MaxStock :
       inventory = [sku \in SKUS |-> IF sku = "P1" THEN level ELSE MaxStock]
  /\ \E stock \in [VIDS -> 0..MaxStock] : variants = Variants(stock)
  /\ config = <<>>
  /\ cart = [s \in SESSIONS |-> <<>>]
  /\ Fresh

\* The shopper is after product P1, plain or as its variant.
CartKeys == {k \in LineKeys : k[1] = "P1"}

CartStep(t, s) ==
  \/ \E key \in CartKeys, quantity \in POST_QUANTITIES :
       AddToCart(t, s, key[1], key[2], quantity)
  \/ \E key \in CartKeys : RemoveFromCart(t, s, key)
  \/ \E key \in CartKeys, quantity \in POST_QUANTITIES : UpdateCartItem(t, s, key, quantity)
  \/ CartView(t, s)
  \/ CartDone(t)

NextCart == \E t \in {"r1"}, s \in {"s1"} : CartStep(t, s)

SpecCart == InitCart /\ [][NextCart]_vars

\* ================================== staff access and role switching (admin)
\* is_admin_user(user)
IsAdminUser(user, profile) ==
  IF ~user.is_authenticated THEN FALSE
  ELSE IF profile # <<>>
       THEN profile[1].is_active /\ profile[1].role \in {"super_admin", "manager"}
       ELSE user.is_superuser

\* is_super_admin(user)
IsSuperAdmin(user, profile) ==
  IF ~user.is_authenticated THEN FALSE
  ELSE IF user.is_superuser THEN TRUE
  ELSE IF profile # <<>>
       THEN profile[1].is_active /\ profile[1].role = "super_admin"
       ELSE FALSE

StaffResponses == {"admin_checked", "super_checked", "role_switched", "back"}

StaffRespond(t, st, message) ==
  /\ pc[t] = "idle"
  /\ staff' = st
  /\ pc' = [pc EXCEPT ![t] = message]
  /\ UNCHANGED <<dbvars, cart, req, admin, flagged, nEdits, initial, detector>>

\* admin_required: the wrapped view runs only if is_admin_user(request.user)
AdminRequired(t, u) ==
  /\ pc[t] = "idle"
  /\ StaffRespond(t, [staff EXCEPT !.access.is_admin_user =
                        IF IsAdminUser(staff.users[u], staff.profiles[u])
                        THEN "passed" ELSE "refused"],
                  "admin_checked")

\* delete_activity_log, clear_activity_logs: if not is_super_admin(request.user)
SuperAdminOnly(t, u) ==
  /\ pc[t] = "idle"
  /\ StaffRespond(t, [staff EXCEPT !.access.is_super_admin =
                        IF IsSuperAdmin(staff.users[u], staff.profiles[u])
                        THEN "passed" ELSE "refused"],
                  "super_checked")

\* switch_role(request, staff_id) by an admin who has a staff profile, for an
\* existing profile: session keys of the caller, flags of the target profile
SwitchRole(t, u, target) ==
  /\ staff.users[u].is_authenticated
  /\ IsAdminUser(staff.users[u], staff.profiles[u])
  /\ staff.profiles[target] # <<>>
  /\ staff.profiles[u] # <<>>
  /\ StaffRespond(t, [staff EXCEPT
                        !.session[u] = <<[original_role |-> staff.profiles[u][1].role,
                                          switched_to |-> target]>>,
                        !.profiles[target] =
                           <<[@[1] EXCEPT !.is_switched = TRUE,
                                          !.original_role = staff.profiles[target][1].role]>>],
                  "role_switched")

\* switch_back(request): works on the caller's own profile
SwitchBack(t, u) ==
  /\ staff.users[u].is_authenticated
  /\ IF /\ staff.profiles[u] # <<>>
        /\ staff.profiles[u][1].is_switched
        /\ staff.profiles[u][1].original_role # ""
     THEN StaffRespond(t, [staff EXCEPT
                             !.profiles[u] =
                                <<[@[1] EXCEPT !.role = staff.profiles[u][1].original_role,
                                               !.is_switched = FALSE,
                                               !.original_role = ""]>>,
                             !.session[u] = <<>>],
                       "back")
     ELSE StaffRespond(t, staff, "back")

\* The redirect is sent; the worker takes the next request.
StaffDone(t) ==
  /\ pc[t] \in StaffResponses
  /\ pc' = [pc EXCEPT ![t] = "idle"]
  /\ UNCHANGED <<dbvars, cart, req, admin, flagged, nEdits, initial, detector, staff>>

\* Any user u1, with or without a staff profile; u2 with or without one.
InitStaff ==
  /\ inventory = [sku \in SKUS |-> MaxStock]
  /\ variants = Variants([v \in VIDS |-> MaxStock])
  /\ config = <<>>
  /\ cart = [s \in SESSIONS |-> <<>>]
  /\ products = InitialProducts
  /\ customers = {}
  /\ orders = <<>>
  /\ items = <<>>
  /\ payments = {}
  /\ pc = [t \in REQS |-> "idle"]
  /\ req = [t \in REQS |-> IdleReq]
  /\ admin = AdminIdle
  /\ flagged = NotFlagging
  /\ nEdits = 0
  /\ initial = [inventory |-> inventory, cart |-> cart]
  /\ detector = NoDetector
  /\ \E a, su \in BOOLEAN :
     \E p1, p2 \in {<<>>} \cup {<<p>> : p \in Profiles} :
       staff = [NoStaff EXCEPT
                  !.users["u1"] = [is_authenticated |-> a, is_superuser |-> su],
                  !.profiles = [u \in USERS |-> IF u = "u1" THEN p1 ELSE p2]]

NextStaff ==
  \E t \in {"r1"}, u \in {"u1"} :
    \/ AdminRequired(t, u)
    \/ SuperAdminOnly(t, u)
    \/ \E target \in USERS : SwitchRole(t, u, target)
    \/ SwitchBack(t, u)
    \/ StaffDone(t)

SpecStaff == InitStaff /\ [][NextStaff]_vars

\* ============================================== catalog (product_edit only)
\* discount_percentage values (x100) the form posts; the column is
\* DecimalField(max_digits=5, decimal_places=2) with no validator
POST_DISCOUNTS == {0, 2500, 10000, 15000}

\* The administrator edits products; no customer is shopping.
InitCatalog ==
  /\ inventory \in [SKUS -> 0..MaxStock]
  /\ variants = Variants([v \in VIDS |-> MaxStock])
  /\ config = <<>>
  /\ cart = [s \in SESSIONS |-> <<>>]
  /\ Fresh

NextCatalog ==
  \/ \E sku \in SKUS : ProductEditLoad(sku)
  \/ \E price \in PRICES, discount \in POST_DISCOUNTS : ProductEditSaveProduct(price, discount)
  \/ \E quantity \in 0..MaxStock : ProductEditSaveInventory(quantity)

SpecCatalog == InitCatalog /\ [][NextCatalog]_vars

\* ============================================ fraud scoring (FraudDetector)
MaxHistory == 3      \* number of WebOrder rows there are when an order is analysed

HIGH_VALUE_ORDER_THRESHOLD == 50000
MULTIPLE_ORDERS_THRESHOLD == 3

FRAUD_TOTALS == {49999, 50000, 60000}    \* cart_total values passed in
IPS == {"ip1", "ip2"}

\* request.META: the X-Forwarded-For list (<<>>: no header) and REMOTE_ADDR
Metas == [forwarded : {<<>>, <<"ip2", "ip1">>}, remote : IPS]

\* get_client_ip: x_forwarded_for.split(',')[0] if the header is there
GetClientIp(meta) ==
  IF meta.forwarded # <<>> THEN meta.forwarded[1] ELSE meta.remote

\* A WebOrder row created hours_ago hours before the analysis.
HistoryOrder(id, customer, hours_ago) ==
  [id |-> id, hours_ago |-> hours_ago]
  @@ NewOrder(customer, [f \in ShipFields |-> "x"], <<>>, 2500)

\* WebOrder.objects.filter(customer=..., created_at__gte=now - 24h).count()
RecentOrders(os, customer) ==
  Cardinality({i \in 1..Len(os) : os[i].customer = customer /\ os[i].hours_ago <= 24})

PreviousOrdersBeforeToday(os, customer) ==
  Cardinality({i \in 1..Len(os) : os[i].customer = customer /\ os[i].hours_ago > 24})

\* WebOrder.objects.filter(customer=self.customer).count()
PreviousOrders(os, customer) ==
  Cardinality({i \in 1..Len(os) : os[i].customer = customer})

HighValueStrict(total) == total > HIGH_VALUE_ORDER_THRESHOLD

\* if self.cart_total >= self.HIGH_VALUE_ORDER_THRESHOLD
HighValue(total) == total >= HIGH_VALUE_ORDER_THRESHOLD

IpScoreByAddress(ip) == IF ip = "ip2" THEN 30 ELSE 0

\* _check_ip_patterns: `if ip: pass` adds nothing for any address
IpScore(ip) == 0

RiskLevelLowFrom30(score) ==
  IF score >= 75 THEN [is_suspicious |-> TRUE, risk_level |-> "HIGH"]
  ELSE IF score >= 40 THEN [is_suspicious |-> TRUE, risk_level |-> "MEDIUM"]
  ELSE IF score >= 30 THEN [is_suspicious |-> TRUE, risk_level |-> "LOW"]
  ELSE [is_suspicious |-> FALSE, risk_level |-> "NONE"]

\* analyze_order: the if / elif chain on self.risk_score
RiskLevel(score) ==
  IF score >= 75 THEN [is_suspicious |-> TRUE, risk_level |-> "HIGH"]
  ELSE IF score >= 40 THEN [is_suspicious |-> TRUE, risk_level |-> "MEDIUM"]
  ELSE IF score >= 20 THEN [is_suspicious |-> TRUE, risk_level |-> "LOW"]
  ELSE [is_suspicious |-> FALSE, risk_level |-> "NONE"]

\* '; '.join(self.red_flags), or the fixed text when nothing is suspicious
Reason(verdict, red_flags) ==
  IF verdict.is_suspicious THEN red_flags
  ELSE <<<<"No suspicious patterns detected">>>>

\* The arguments of the evaluation in progress.
Input == detector.inputs[detector.run]

DetectorStep(from, to, score, flags) ==
  /\ detector.pc = from
  /\ detector' = [detector EXCEPT !.pc = to, !.risk_score = score, !.red_flags = flags]
  /\ UNCHANGED <<dbvars, cart, pc, req, admin, flagged, nEdits, initial, staff>>

\* detector = FraudDetector(request, customer, cart_total)
NewDetector ==
  /\ detector.pc = "done"
  /\ detector.run < Len(detector.inputs)
  /\ detector' = [detector EXCEPT !.pc = "value", !.run = @ + 1,
                                  !.risk_score = 0, !.red_flags = <<>>, !.verdict = <<>>]
  /\ UNCHANGED <<dbvars, cart, pc, req, admin, flagged, nEdits, initial, staff>>

\* _check_order_value
CheckOrderValue ==
  /\ detector.pc = "value"
  /\ IF HighValue(Input.cart_total)
     THEN DetectorStep("value", "multiple", detector.risk_score + 25,
                       Append(detector.red_flags, <<"High value order", Input.cart_total>>))
     ELSE DetectorStep("value", "multiple", detector.risk_score, detector.red_flags)

\* _check_multiple_orders
CheckMultipleOrders ==
  LET recent_orders == RecentOrders(orders, detector.customer) IN
  /\ detector.pc = "multiple"
  /\ IF recent_orders >= MULTIPLE_ORDERS_THRESHOLD
     THEN DetectorStep("multiple", "ip", detector.risk_score + 30,
                       Append(detector.red_flags, <<"Multiple orders in 24h", recent_orders>>))
     ELSE DetectorStep("multiple", "ip", detector.risk_score, detector.red_flags)

\* _check_ip_patterns, _check_address_mismatch: the queryset is built and
\* never evaluated, both bodies end in pass
CheckIpAndAddress ==
  /\ detector.pc = "ip"
  /\ DetectorStep("ip", "newcustomer",
                  detector.risk_score + IpScore(GetClientIp(Input.meta)), detector.red_flags)

\* _check_new_customer_orders
CheckNewCustomerOrders ==
  /\ detector.pc = "newcustomer"
  /\ IF PreviousOrders(orders, detector.customer) = 0
        /\ Input.cart_total > HIGH_VALUE_ORDER_THRESHOLD
     THEN DetectorStep("newcustomer", "classify", detector.risk_score + 35,
                       Append(detector.red_flags, <<"New customer with high-value first order">>))
     ELSE DetectorStep("newcustomer", "classify", detector.risk_score, detector.red_flags)

\* analyze_order returns (is_suspicious, risk_level, reason)
AnalyzeOrderReturn ==
  /\ detector.pc = "classify"
  /\ detector' = [detector EXCEPT !.pc = "security",
                                  !.verdict = <<RiskLevel(detector.risk_score)>>]
  /\ UNCHANGED <<dbvars, cart, pc, req, admin, flagged, nEdits, initial, staff>>

\* What check_order_security hands back.
SecurityResult(d) ==
  [is_safe |-> ~d.verdict[1].is_suspicious,
   risk_level |-> d.verdict[1].risk_level,
   reason |-> Reason(d.verdict[1], d.red_flags),
   risk_score |-> d.risk_score]

CheckOrderSecurityReturnFlagging ==
  /\ detector.pc = "security"
  /\ detector' = [detector EXCEPT !.pc = "done", !.out = Append(@, SecurityResult(detector))]
  /\ orders' = [i \in 1..Len(orders) |-> [orders[i] EXCEPT !.status = "pending"]]
  /\ payments' = payments \cup {FlagPayment(orders[i]) : i \in 1..Len(orders)}
  /\ UNCHANGED <<products, inventory, variants, config, customers, items,
                 cart, pc, req, admin, flagged, nEdits, initial, staff>>

\* check_order_security returns (not is_suspicious, {risk_level, reason, risk_score})
CheckOrderSecurityReturn ==
  /\ detector.pc = "security"
  /\ detector' = [detector EXCEPT !.pc = "done", !.out = Append(@, SecurityResult(detector))]
  /\ UNCHANGED <<dbvars, cart, pc, req, admin, flagged, nEdits, initial, staff>>

\* The order tables an analysis can find: up to MaxHistory orders of the two
\* customers, each placed within the last day or before it.
Histories ==
  UNION {[1..n -> SESSIONS \X {1, 30}] : n \in 0..MaxHistory}

\* Two evaluations for customer s1 are asked for, one after the other.
InitFraud ==
  /\ products = InitialProducts
  /\ inventory = [sku \in SKUS |-> MaxStock]
  /\ variants = Variants([v \in VIDS |-> MaxStock])
  /\ config = <<>>
  /\ customers = SESSIONS
  /\ \E h \in Histories :
       orders = [i \in 1..Len(h) |-> HistoryOrder(i, h[i][1], h[i][2])]
  /\ items = <<>>
  /\ payments = {}
  /\ cart = [s \in SESSIONS |-> <<>>]
  /\ pc = [t \in REQS |-> "idle"]
  /\ req = [t \in REQS |-> IdleReq]
  /\ admin = AdminIdle
  /\ flagged = NotFlagging
  /\ nEdits = 0
  /\ initial = [inventory |-> inventory, cart |-> cart]
  /\ staff = NoStaff
  /\ \E t1, t2 \in FRAUD_TOTALS : \E m2 \in Metas :
       detector = [NoDetector EXCEPT
                     !.customer = "s1",
                     !.inputs = <<[cart_total |-> t1,
                                   meta |-> [forwarded |-> <<>>, remote |-> "ip1"]],
                                  [cart_total |-> t2, meta |-> m2]>>]

NextFraud ==
  \/ NewDetector
  \/ CheckOrderValue
  \/ CheckMultipleOrders
  \/ CheckIpAndAddress
  \/ CheckNewCustomerOrders
  \/ AnalyzeOrderReturn
  \/ CheckOrderSecurityReturn

SpecFraud == InitFraud /\ [][NextFraud]_vars

\* ------------------------------------- delete_customer while orders are scored
\* user.delete(): the WebCustomer row goes with the user, the customer's orders
\* with it, and their lines and payments with the orders (on_delete=CASCADE)
DeleteCustomer(c) ==
  LET gone == {orders[i].id : i \in {j \in 1..Len(orders) : orders[j].customer = c}} IN
  /\ c \in customers
  /\ customers' = customers \ {c}
  /\ orders' = SelectSeq(orders, LAMBDA o : o.customer # c)
  /\ items' = SelectSeq(items, LAMBDA it : it.order \notin gone)
  /\ payments' = {p \in payments : p.order \notin gone}
  /\ UNCHANGED <<products, inventory, variants, config,
                 cart, pc, req, admin, flagged, nEdits, initial, detector, staff>>

\* The two evaluations run while an administrator may delete customers; each
\* query of the detector is a statement of its own.
NextFraudRace ==
  \/ NextFraud
  \/ \E c \in SESSIONS : DeleteCustomer(c)

SpecFraudRace == InitFraud /\ [][NextFraudRace]_vars

\* ===================================================================== claims
\* A checkout POST of worker t returns in this step.
Returns(t) == pc[t] \notin Responses /\ pc'[t] \in Responses

StockOf(vs) == [v \in VIDS |-> vs[v].stock_quantity]

\* Some line of cart c asks for more than its stock row holds when the lines
\* before it have taken theirs.
RECURSIVE Shortfall(_, _, _)
Shortfall(c, inv, var) ==
  IF c = <<>> THEN FALSE
  ELSE LET line == Head(c)
           q == line.quantity
           v == line.variant_id
       IN  IF IsVariantLine(line)
           THEN \/ var[v] < q
                \/ Shortfall(Tail(c), [inv EXCEPT ![variants[v].product] = @ - q],
                             [var EXCEPT ![v] = @ - q])
           ELSE \/ inv[line.sku] < q
                \/ Shortfall(Tail(c), [inv EXCEPT ![line.sku] = @ - q], var)

\* The quantity of product p, and of variant v, on the lines of cart c.
RECURSIVE ProductQuantity(_, _)
ProductQuantity(c, p) ==
  IF c = <<>> THEN 0
  ELSE ProductQuantity(Tail(c), p)
       + (IF (IF IsVariantLine(Head(c)) THEN variants[Head(c).variant_id].product
              ELSE Head(c).sku) = p
          THEN Head(c).quantity ELSE 0)

RECURSIVE VariantQuantity(_, _)
VariantQuantity(c, v) ==
  IF c = <<>> THEN 0
  ELSE VariantQuantity(Tail(c), v)
       + (IF Head(c).variant_id = v THEN Head(c).quantity ELSE 0)

ItemsOf(its, id) == {i \in 1..Len(its) : its[i].order = id}
PaymentsOf(pays, id) == {p \in pays : p.order = id}

\* C1: a checkout POST whose cart has a line asking for more than the stock
\* left when that line is processed returns an error and leaves every order,
\* order line, payment record and stock counter as it was before the call.
C1_Atomicity ==
  [][\A t \in REQS :
       Returns(t) /\ Shortfall(req[t].cart, inventory, StockOf(variants))
       => /\ pc'[t] # "ok"
          /\ orders' = orders /\ items' = items /\ payments' = payments
          /\ inventory' = inventory /\ variants' = variants]_vars

\* A two-line cart failed on its second line after its first line's stock
\* had been deducted inside the transaction.
C1_Witness ==
  \E t \in REQS :
    /\ pc[t] = "stock"
    /\ LET c == cart[req[t].session] IN
       /\ Len(c) = 2
       /\ ~IsVariantLine(c[1]) /\ ~IsVariantLine(c[2])
       /\ c[1].quantity <= inventory[c[1].sku]
       /\ c[2].quantity > inventory[c[2].sku]
    /\ orders = <<>> /\ items = <<>> /\ payments = {}

\* C5: a successful checkout lowers every product's quantity_on_hand and every
\* variant's stock_quantity by exactly the quantity of that product or variant
\* on the cart's lines, and leaves the other counters unchanged.
C5_StockConservation ==
  [][\A t \in REQS :
       Returns(t) /\ pc'[t] = "ok"
       => /\ \A p \in SKUS :
               inventory[p] - inventory'[p] = ProductQuantity(req[t].cart, p)
          /\ \A v \in VIDS :
               variants[v].stock_quantity - variants'[v].stock_quantity
                 = VariantQuantity(req[t].cart, v)]_vars

\* A checkout of two lines of quantity 2 succeeded: one counter went from 2
\* to 0 for each line.
C5_Witness ==
  \E t \in REQS :
    /\ pc[t] = "ok"
    /\ Len(items) = 2
    /\ \A i \in 1..2 : /\ items[i].quantity = 2
                       /\ initial.inventory[items[i].product] = 2
                       /\ inventory[items[i].product] = 0

\* C6: the session cart changes only in the step that commits the order, its
\* lines and its payment record, and then it becomes empty; a checkout that
\* fails (validation, stock shortfall, unexpected error) leaves it as it was.
C6_CartClearedLast ==
  [][\A t \in REQS :
       Returns(t)
       => /\ pc'[t] = "ok"
             => /\ cart'[req[t].session] = <<>>
                /\ Len(orders') = Len(orders) + 1
                /\ Cardinality(ItemsOf(items', Len(orders'))) = Len(req[t].cart)
                /\ PaymentsOf(payments', Len(orders')) # {}
                /\ \A s \in SESSIONS \ {req[t].session} : cart'[s] = cart[s]
          /\ pc'[t] # "ok" => cart' = cart]_vars

\* An unexpected error (the variant line's OrderItem.objects.create) ended a
\* checkout and the cart still holds what it held.
C6_Witness ==
  \E t \in REQS :
    /\ pc[t] = "error"
    /\ cart[req[t].session] # <<>>
    /\ cart = initial.cart

\* C7: a checkout POST with a shipping field missing creates or modifies no
\* database row and leaves the cart unchanged.
C7_InvalidPersistsNothing ==
  [][\A t \in REQS :
       Returns(t) /\ pc'[t] = "invalid"
       => /\ customers' = customers /\ orders' = orders /\ items' = items
          /\ payments' = payments /\ inventory' = inventory /\ variants' = variants
          /\ products' = products /\ config' = config /\ cart' = cart]_vars

\* C9: a successful checkout adds exactly one order, with status 'pending',
\* one order line per cart line, and exactly one payment record for the order,
\* with status 'completed' and the order's total_amount.
C9_OneOrderOnePayment ==
  [][\A t \in REQS :
       Returns(t) /\ pc'[t] = "ok"
       => LET id == Len(orders') IN
          /\ Len(orders') = Len(orders) + 1
          /\ \A i \in 1..Len(orders) : orders'[i] = orders[i]
          /\ orders'[id].status = "pending"
          /\ Len(items') = Len(items) + Len(req[t].cart)
          /\ Cardinality(ItemsOf(items', id)) = Len(req[t].cart)
          /\ \A i \in 1..Len(req[t].cart) :
               /\ items'[Len(items) + i].product = req[t].cart[i].sku
               /\ items'[Len(items) + i].quantity = req[t].cart[i].quantity
          /\ Cardinality(payments' \ payments) = 1
          /\ Cardinality(PaymentsOf(payments', id)) = 1
          /\ \A p \in PaymentsOf(payments', id) :
               p.status = "completed" /\ p.amount = orders'[id].total_amount]_vars

\* A checkout under an 8% tax succeeded: the one payment record carries the
\* total, which is more than the subtotal.
C9_Witness ==
  \E t \in REQS :
    /\ pc[t] = "ok"
    /\ Len(orders) = 1
    /\ config # <<>>
    /\ \E p \in payments : /\ p.order = 1
                           /\ p.amount = orders[1].total_amount
                           /\ p.amount > orders[1].subtotal

\* C10: in every reachable state each order owns at most one payment record.
C10_AtMostOnePayment ==
  \A i \in 1..Len(orders) : Cardinality(PaymentsOf(payments, i)) <= 1

\* flag_order_for_review was called on an order that has its payment record:
\* the INSERT was refused and the order still owns one record.
C10_Witness ==
  /\ flagged.result = "IntegrityError"
  /\ Cardinality(PaymentsOf(payments, flagged.order)) = 1

\* Both customers' carts were one line of product p with quantity q.
BothAsk(p, q) ==
  \A s \in SESSIONS :
    initial.cart[s] = <<[sku |-> p, variant_id |-> None, quantity |-> q]>>

\* The two workers hold the responses of checkouts of two different customers.
BothAnswered ==
  /\ \A t \in REQS : pc[t] \in Responses
  /\ \A t, u \in REQS : t # u => req[t].session # req[u].session

\* C2: quantity_on_hand is never negative, in the database or in a
\* transaction's uncommitted writes; and when two customers concurrently check
\* out quantity q of one product with stock S, exactly S div q of the
\* checkouts succeed (at most both), the others get the out-of-stock error,
\* and the stock ends at S minus what the successful ones bought.
C2_NoOversell ==
  /\ \A p \in SKUS : inventory[p] >= 0
  /\ \A t \in REQS : \A p \in DOMAIN req[t].inv : req[t].inv[p] >= 0
  /\ \A p \in SKUS : \A q \in 1..MaxQty :
       LET S == initial.inventory[p]
           won == {t \in REQS : pc[t] = "ok"}
       IN  BothAsk(p, q) /\ BothAnswered /\ Cardinality(REQS) >= S \div q
           => /\ \A t \in REQS : pc[t] \in {"ok", "stock"}
              /\ Cardinality(won) = S \div q
              /\ inventory[p] = S - q * Cardinality(won)

\* Stock 2, both customers ask for 2 of P1: one order, one out-of-stock
\* error, stock 0.
C2_Witness ==
  /\ BothAsk("P1", 2) /\ BothAnswered
  /\ initial.inventory["P1"] = 2
  /\ \E t, u \in REQS : pc[t] = "ok" /\ pc[u] = "stock"
  /\ inventory["P1"] = 0
  /\ Len(orders) = 1

\* C3: no two concurrent checkouts ever wait for each other's row locks.
C3_NoLockCycle == \A t \in REQS : ~InCycle(t)

\* The sum of quantity * unit_price over the order lines of order id.
RECURSIVE LinesTotal(_, _)
LinesTotal(its, id) ==
  IF its = <<>> THEN 0
  ELSE LinesTotal(Tail(its), id)
       + (IF Head(its).order = id THEN Head(its).quantity * Head(its).unit_price ELSE 0)

\* C4: the order lines of every committed order add up to the order's subtotal.
C4_MoneyConserved ==
  \A i \in 1..Len(orders) : LinesTotal(items, i) = orders[i].subtotal

\* C8: no step changes the unit_price of an order line that exists; the
\* administrator's product_edit steps in particular.
C8_PriceSnapshot ==
  [][\A i \in 1..Len(items) :
       /\ i <= Len(items')
       /\ OrderItemUnitPrice(items'[i], products') = OrderItemUnitPrice(items[i], products)]_vars

\* An order line keeps the price it was sold at after product_edit gave the
\* product another price.
C8_Witness ==
  /\ admin.pc \in {"saved", "idle"}
  /\ nEdits > 0
  /\ \E i \in 1..Len(items) :
       OrderItemUnitPrice(items[i], products) # DiscountedPrice(products[items[i].product])

\* C11: every call of flag_order_for_review succeeds and leaves a payment
\* record with status 'flagged' for the order, whose status is 'pending'.
C11_FlagAlwaysSucceeds ==
  flagged.order # 0
  => /\ flagged.result = "created"
     /\ \E p \in payments : p.order = flagged.order /\ p.status = "flagged"
     /\ orders[flagged.order].status = "pending"

\* C12: whenever no request is in progress, every quantity_on_hand is >= 0.
C12_InventoryNonNegative ==
  Quiescent => \A p \in SKUS : inventory[p] >= 0

\* The amounts and the shipping address of an order row.
CoreFields(o) ==
  [subtotal |-> o.subtotal, tax_amount |-> o.tax_amount,
   shipping_cost |-> o.shipping_cost, total_amount |-> o.total_amount,
   shipping |-> o.shipping]

\* C17: no step changes the subtotal, tax_amount, shipping_cost, total_amount
\* or shipping address of an order that exists; the staff's status updates,
\* start_picking, mark_ready_to_ship, ship_order and flag_order_for_review in
\* particular.
C17_CoreFieldsImmutable ==
  [][\A i \in 1..Len(orders) :
       /\ i <= Len(orders')
       /\ CoreFields(orders'[i]) = CoreFields(orders[i])]_vars

\* An order that was flagged for review and then shipped: status and
\* shipped_at changed, the row is otherwise what checkout wrote.
C17_Witness ==
  /\ Len(orders) = 1
  /\ flagged.order = 1
  /\ orders[1].status = "shipped"
  /\ "shipped_at" \in DOMAIN orders[1]
  /\ orders[1].tax_amount > 0
  /\ orders[1].total_amount = orders[1].subtotal + orders[1].tax_amount + orders[1].shipping_cost

\* C18: the unit_price written on an order line is the price the subtotal loop
\* read for that cart line.
C18_UnitPriceFromSubtotalRead ==
  [][\A t \in REQS :
       pc[t] = "inventory" /\ Len(req'[t].items) = Len(req[t].items) + 1
       => req'[t].items[Len(req'[t].items)].unit_price
            = req[t].read[req[t].idx][1]]_vars

\* What the lines of cart c are worth: quantity * variant price for a variant
\* line, quantity * discounted price for a product line.
RECURSIVE CartWorth(_)
CartWorth(c) ==
  IF c = <<>> THEN 0
  ELSE LET line == Head(c)
           price == IF IsVariantLine(line)
                    THEN VariantPrice(variants[line.variant_id], products[line.sku])
                    ELSE DiscountedPrice(products[line.sku])
       IN  line.quantity * price + CartWorth(Tail(c))

\* C19: the subtotal of the order row checkout creates counts every cart line,
\* a variant line at the variant's price.
C19_SubtotalCountsEveryLine ==
  [][\A t \in REQS :
       pc[t] = "create" /\ pc'[t] = "line"
       => req'[t].order[1].subtotal = CartWorth(req[t].cart)]_vars

\* C20: on every stored order, total_amount is the sum of the stored subtotal,
\* tax_amount and shipping_cost.
C20_TotalIsSumOfParts ==
  \A i \in 1..Len(orders) :
    orders[i].total_amount
      = orders[i].subtotal + orders[i].tax_amount + orders[i].shipping_cost

\* The orders of the analysed customer, and those of the last 24 hours.
HistoryOf(c) == {i \in 1..Len(orders) : orders[i].customer = c}
Last24hOf(c) == {i \in HistoryOf(c) : orders[i].hours_ago <= 24}

\* 25 for a total >= 50000, plus 30 for >= 3 orders in 24 hours, plus 35 for
\* a first order with a total > 50000.
RuleSum(total, previous, recent) ==
  (IF total >= 50000 THEN 25 ELSE 0)
  + (IF recent >= 3 THEN 30 ELSE 0)
  + (IF previous = 0 /\ total > 50000 THEN 35 ELSE 0)

\* C13: the score of every finished evaluation is the sum of the points of
\* the three rules, each applied on its own.
C13_ScoreIsRuleSum ==
  \A k \in 1..Len(detector.out) :
    detector.out[k].risk_score
      = RuleSum(detector.inputs[k].cart_total,
                Cardinality(HistoryOf(detector.customer)),
                Cardinality(Last24hOf(detector.customer)))

\* A new customer: total 60000 scored 60 and total exactly 50000 scored 25.
C13_Witness ==
  /\ HistoryOf(detector.customer) = {}
  /\ Len(detector.out) = 2
  /\ detector.inputs[1].cart_total = 60000 /\ detector.out[1].risk_score = 60
  /\ detector.inputs[2].cart_total = 50000 /\ detector.out[2].risk_score = 25

\* NONE below 20, LOW 20..39, MEDIUM 40..74, HIGH from 75.
Band(score) ==
  IF score < 20 THEN "NONE"
  ELSE IF score <= 39 THEN "LOW"
  ELSE IF score <= 74 THEN "MEDIUM"
  ELSE "HIGH"

\* C14: analyze_order classifies every score 0..100 by the bands with
\* is_suspicious = (score >= 20), and check_order_security returns
\* is_safe = not is_suspicious with that level and the score.
C14_Classification ==
  /\ \A score \in 0..100 :
       RiskLevel(score) = [is_suspicious |-> score >= 20, risk_level |-> Band(score)]
  /\ \A k \in 1..Len(detector.out) :
       LET o == detector.out[k] IN
       /\ o.is_safe = ~(o.risk_score >= 20)
       /\ o.risk_level = Band(o.risk_score)
  /\ detector.pc = "security"
     => detector.verdict[1] = [is_suspicious |-> detector.risk_score >= 20,
                               risk_level |-> Band(detector.risk_score)]

\* One evaluation came back unsafe / LOW with 30, the other unsafe / MEDIUM
\* with 55.
C14_Witness ==
  /\ Len(detector.out) = 2
  /\ ~detector.out[1].is_safe /\ detector.out[1].risk_level = "LOW"
  /\ detector.out[1].risk_score = 30
  /\ ~detector.out[2].is_safe /\ detector.out[2].risk_level = "MEDIUM"
  /\ detector.out[2].risk_score = 55

\* C15: two evaluations for the same customer over the same orders with the
\* same total return the same score, level and reason, whatever the client
\* address and headers of the two requests.
C15_Deterministic ==
  /\ Len(detector.out) = 2
  /\ detector.inputs[1].cart_total = detector.inputs[2].cart_total
  => detector.out[1] = detector.out[2]

\* The same total came from two client addresses and got the same LOW
\* verdict with its reason.
C15_Witness ==
  /\ Len(detector.out) = 2
  /\ detector.inputs[1].cart_total = detector.inputs[2].cart_total
  /\ GetClientIp(detector.inputs[1].meta) # GetClientIp(detector.inputs[2].meta)
  /\ detector.inputs[1].meta.remote # detector.inputs[2].meta.remote
  /\ detector.out[1].risk_level = "LOW"
  /\ detector.out[2].reason = detector.out[1].reason

\* C16: no step of an evaluation (analyze_order, check_order_security)
\* changes an order, order line, payment record, stock counter or cart.
C16_AnalysisIsPure ==
  [][detector' # detector
     => /\ orders' = orders /\ items' = items /\ payments' = payments
        /\ inventory' = inventory /\ variants' = variants
        /\ cart' = cart]_vars

\* Two evaluations that found the customer suspicious have returned; the
\* orders they counted are there and no payment record was written.
C16_Witness ==
  /\ Len(detector.out) = 2
  /\ \A k \in 1..2 : ~detector.out[k].is_safe
  /\ Cardinality(Last24hOf(detector.customer)) >= 3
  /\ payments = {}
  /\ \A i \in 1..Len(orders) : orders[i] = HistoryOrder(i, orders[i].customer, orders[i].hours_ago)

\* C21: with no SiteConfiguration row an order carries no tax and pays 5.99
\* shipping below a subtotal of 50.00; with a row, the tax is the row's rate
\* when its flag is set (to the cent) and none otherwise, and shipping is the
\* row's cost below the row's threshold.
C21_ConfigOrDefaults ==
  \A i \in 1..Len(orders) :
    LET o == orders[i]
    IN  IF config = <<>>
        THEN /\ o.tax_amount = 0
             /\ o.shipping_cost = IF o.subtotal < 5000 THEN 599 ELSE 0
        ELSE /\ IF config[1].tax_enabled
                THEN /\ 2 * (o.tax_amount * 10000 - o.subtotal * config[1].tax_rate) <= 10000
                     /\ 2 * (o.subtotal * config[1].tax_rate - o.tax_amount * 10000) <= 10000
                ELSE o.tax_amount = 0
             /\ o.shipping_cost = IF o.subtotal < config[1].free_shipping_threshold
                                  THEN config[1].default_shipping_cost ELSE 0

\* An order between the two thresholds under a row with threshold 30.00 and tax on.
C21_Witness ==
  /\ config # <<>> /\ config[1].tax_enabled
  /\ config[1].free_shipping_threshold = 3000
  /\ \E i \in 1..Len(orders) :
       /\ orders[i].subtotal = 4500 /\ orders[i].shipping_cost = 0
       /\ orders[i].tax_amount > 0

\* C22: the discounted price of every product is its list price minus the
\* discount share, rounded to the cent and never below zero.
C22_DiscountedPriceClamped ==
  \A sku \in SKUS :
    LET p == products[sku]
        cut == RoundHalfEven(p.selling_price * 10000
                             - p.selling_price * p.discount_percentage, 10000)
    IN  /\ DiscountedPrice(p) = IF cut < 0 THEN 0 ELSE cut
        /\ DiscountedPrice(p) >= 0

\* C23: the stock an order bought is deducted once, by its checkout; shipping
\* the order, for the first time or again, takes nothing more off the shelf.
C23_DeductedOnce ==
  [][\A i \in 1..Len(orders) : ShipOrder(i) => inventory' = inventory]_vars

\* C24: a session cart becomes at most one order: of two concurrent checkout
\* POSTs of the same session, at most one stores an order and takes stock.
C24_OneOrderPerCart ==
  \A s \in SESSIONS :
    /\ Cardinality({i \in 1..Len(orders) : orders[i].customer = UserOf(s)}) <= 1
    /\ (\A t \in REQS : req[t].session = s /\ pc[t] \in Responses)
         => \A p \in SKUS :
              initial.inventory[p] - inventory[p] <= ProductQuantity(initial.cart[s], p)

\* C25 as stated: every finished evaluation scored 0, 25, 30, 55 or 60 and its
\* level is never HIGH.
C25_HighUnreachable ==
  \A k \in 1..Len(detector.out) :
    /\ detector.out[k].risk_score \in {0, 25, 30, 55, 60}
    /\ detector.out[k].risk_level \in {"NONE", "LOW", "MEDIUM"}

\* C25, amended: while the analysed customer's row exists every finished
\* evaluation scored 0, 25, 30, 55 or 60 and is NONE, LOW or MEDIUM; once the
\* customer has been deleted the only other score is 90, which is HIGH.
C25_HighOnlyAfterDelete ==
  \A k \in 1..Len(detector.out) :
    LET o == detector.out[k] IN
    IF detector.customer \in customers
    THEN /\ o.risk_score \in {0, 25, 30, 55, 60}
         /\ o.risk_level \in {"NONE", "LOW", "MEDIUM"}
    ELSE /\ o.risk_score \in {0, 25, 30, 55, 60, 90}
         /\ o.risk_level = "HIGH" <=> o.risk_score = 90

\* The customer was deleted between the two order counts of the first
\* evaluation, which came back HIGH with 90; the second one scored 60.
C25_Witness ==
  /\ Len(detector.out) = 2
  /\ detector.out[1].risk_score = 90 /\ detector.out[1].risk_level = "HIGH"
  /\ detector.out[2].risk_score = 60 /\ detector.out[2].risk_level = "MEDIUM"
  /\ detector.customer \notin customers

\* C26: every line of every session cart has a quantity of at least 1.
C26_CartQuantityPositive ==
  \A s \in SESSIONS : \A i \in 1..Len(cart[s]) : cart[s][i].quantity >= 1

\* What add_to_cart answers with.
AddResponses == {"added", "limited", "unavailable", "out_of_stock"}

\* C27: when add_to_cart has answered a request for a positive quantity, the
\* line stands as it was or at no more than the stock the view read; a request
\* beyond the remainder brought the line to exactly that stock, one within it
\* added what was asked; no other line has changed.
C27_AddWithinStock ==
  \A t \in REQS :
    pc[t] \in AddResponses /\ req[t].post.quantity > 0
    => LET key    == <<req[t].post.sku, req[t].post.variant_id>>
           asked  == req[t].post.quantity
           before == CartQuantity(req[t].cart, key)
           after  == CartQuantity(cart[req[t].session], key)
           stock  == AvailableStock(key[1], key[2])
       IN  /\ after = before \/ after <= stock
           /\ stock <= 0 => after = before
           /\ stock > 0 /\ before + asked > stock
              => after = IF stock - before > 0 THEN stock ELSE before
           /\ stock > 0 /\ before + asked <= stock => after = before + asked
           /\ \A k \in LineKeys \ {key} :
                CartQuantity(cart[req[t].session], k) = CartQuantity(req[t].cart, k)

\* add_to_cart has just cut a request for the variant to what was left: the
\* variant line stands at the variant's stock, next to a product line.
C27_Witness ==
  /\ pc["r1"] = "limited"
  /\ req["r1"].post = [sku |-> "P1", variant_id |-> "V1", quantity |-> MaxStock]
  /\ CartQuantity(req["r1"].cart, <<"P1", "V1">>) = 1
  /\ CartQuantity(cart["s1"], <<"P1", "V1">>) = variants["V1"].stock_quantity
  /\ variants["V1"].stock_quantity = MaxStock
  /\ CartQuantity(cart["s1"], <<"P1", None>>) = 1

\* C28: start_picking changes an order only from pending to processing,
\* mark_ready_to_ship only from processing to confirmed, both leaving any other
\* order as it is; ship_order ships an order only from confirmed.
C28_GuardedTransitions ==
  [][\A i \in 1..Len(orders) :
       /\ StartPicking(i)
          => orders'[i] = IF orders[i].status = "pending"
                          THEN [orders[i] EXCEPT !.status = "processing"] ELSE orders[i]
       /\ MarkReadyToShip(i)
          => orders'[i] = IF orders[i].status = "processing"
                          THEN [orders[i] EXCEPT !.status = "confirmed"] ELSE orders[i]
       /\ ShipOrder(i) /\ orders'[i].status = "shipped"
          => orders[i].status = "confirmed"]_vars

\* C29: whoever passes is_super_admin passes is_admin_user, and a user whose
\* staff profile is inactive passes neither.
C29_SuperAdminIsAdmin ==
  /\ staff.access.is_super_admin = "passed" => staff.access.is_admin_user # "refused"
  /\ staff.profiles["u1"] # <<>> /\ ~staff.profiles["u1"][1].is_active
     => /\ staff.access.is_super_admin # "passed"
        /\ staff.access.is_admin_user # "passed"

\* C30: once switch_back has answered, no staff profile is switched or keeps
\* an original role and the caller's session holds neither role-switch key;
\* no step changes the role of a profile.
C30_SwitchRoundTrip ==
  /\ [](pc["r1"] = "back"
         => /\ \A u \in USERS :
                 staff.profiles[u] # <<>>
                 => /\ ~staff.profiles[u][1].is_switched
                    /\ staff.profiles[u][1].original_role = ""
            /\ staff.session["u1"] = <<>>)
  /\ [][\A u \in USERS :
         staff.profiles[u] # <<>>
         => staff'.profiles[u] # <<>> /\ staff'.profiles[u][1].role = staff.profiles[u][1].role]_vars

====
